---- MODULE Spec2Model ----
(***************************************************************************)
(* WeatherDataIngestor.py: one Lambda invocation that resolves an API key, *)
(* fetches the current weather of one city, flattens the response and      *)
(* puts the record on a Firehose delivery stream.                          *)
(*                                                                         *)
(* Python values are tagged records: None is Null, a str is Str(s), a      *)
(* number is Num(n), a dict is Obj(f) with f a function on its keys, a     *)
(* list is Arr(q).  Temperatures are carried in hundredths (30015 is       *)
(* 300.15), every other number is an integer.  A call that can raise       *)
(* yields Ok(v) or Raise(type, msg).                                       *)
(***************************************************************************)
EXTENDS Integers, Sequences, FiniteSets, TLC

VARIABLES
    secret_name_env,   \* os.environ.get('WEATHER_API_SECRET_NAME')
    api_key_env,       \* os.environ.get('OpenWeatherMapApiKey')
    default_city_env,  \* os.environ.get('DEFAULT_CITY'), Null when unset
    stream_env,        \* os.environ.get('DELIVERY_STREAM_NAME'), Null when unset
    tz_offset,         \* seconds the process's local time is ahead of UTC
    event,             \* the trigger input
    pc,                \* position in lambda_handler / transform_weather_data
    api_key,           \* local api_key of lambda_handler
    city,              \* local city of lambda_handler
    city_source,       \* which operand of the or-chain produced city
    response,          \* the urllib3 response bound at line 109
    put_response,      \* the Firehose response bound at line 128
    weather_data,      \* json.loads of the response body
    transformed_data,  \* result of transform_weather_data
    json_data,         \* the serialized line
    result,            \* what lambda_handler returns
    calls,             \* the external calls issued so far, in order
    sink_records,      \* the records the delivery stream accepted
    raised,            \* every exception raised so far, with the place
    secret_lookup,     \* what get_secret_value did, Unset when not called
    now                \* the clock reading of datetime.utcnow()

vars == <<secret_name_env, api_key_env, default_city_env, stream_env, tz_offset,
          event, pc, api_key, city, city_source, response, put_response,
          weather_data, transformed_data, json_data, result, calls,
          sink_records, raised, secret_lookup, now>>

-----------------------------------------------------------------------------
(* Python values *)

Null == [t |-> "null"]
Unset == [t |-> "unset"]
Str(s) == [t |-> "str", s |-> s]
Num(n) == [t |-> "num", n |-> n]
Obj(f) == [t |-> "obj", o |-> f]
Arr(q) == [t |-> "arr", a |-> q]
EmptyDict == [k \in {} |-> Null]

Ok(v) == [ok |-> TRUE, val |-> v]
Raise(type, msg) == [ok |-> FALSE, type |-> type, msg |-> msg]

\* Python truth value of the values an or-chain or "not" meets here.
Truthy(v) ==
    CASE v.t = "null" -> FALSE
      [] v.t = "str" -> v.s # ""
      [] v.t = "num" -> v.n # 0
      [] v.t = "obj" -> DOMAIN v.o # {}
      [] v.t = "arr" -> v.a # <<>>
      [] OTHER -> TRUE

\* repr() of a dict key, as str(KeyError(key)) prints it.
Repr(k) ==
    CASE k = "name" -> "'name'"
      [] k = "sys" -> "'sys'"
      [] k = "country" -> "'country'"
      [] k = "weather" -> "'weather'"
      [] k = "main" -> "'main'"
      [] k = "description" -> "'description'"
      [] k = "temp" -> "'temp'"
      [] k = "feels_like" -> "'feels_like'"
      [] k = "temp_min" -> "'temp_min'"
      [] k = "temp_max" -> "'temp_max'"
      [] k = "humidity" -> "'humidity'"
      [] k = "pressure" -> "'pressure'"
      [] k = "SecretString" -> "'SecretString'"
      [] OTHER -> "'?'"

\* A step of a subscript path: K(k) is ['k'], I(i) is [i].
K(k) == [key |-> k]
I(i) == [idx |-> i]

\* v[e] as Python evaluates it.
Subscript(v, e) ==
    IF "key" \in DOMAIN e
    THEN CASE v.t = "obj" ->
                IF e.key \in DOMAIN v.o THEN Ok(v.o[e.key])
                ELSE Raise("KeyError", Repr(e.key))
           [] v.t = "arr" ->
                Raise("TypeError", "list indices must be integers or slices, not str")
           [] v.t = "null" ->
                Raise("TypeError", "'NoneType' object is not subscriptable")
           [] v.t = "str" ->
                Raise("TypeError", "string indices must be integers, not 'str'")
           [] OTHER ->
                Raise("TypeError", "'int' object is not subscriptable")
    ELSE CASE v.t = "arr" ->
                IF e.idx + 1 \in DOMAIN v.a THEN Ok(v.a[e.idx + 1])
                ELSE Raise("IndexError", "list index out of range")
           [] v.t = "obj" ->
                IF e.idx = 0 THEN Raise("KeyError", "0") ELSE Raise("KeyError", "?")
           [] v.t = "null" ->
                Raise("TypeError", "'NoneType' object is not subscriptable")
           [] v.t = "str" ->
                IF v.s # "" THEN Ok(Str("?")) ELSE Raise("IndexError", "string index out of range")
           [] OTHER ->
                Raise("TypeError", "'int' object is not subscriptable")

\* v[p1][p2]... left to right, stopping at the first subscript that raises.
RECURSIVE GetPath(_, _)
GetPathRest(r, rest) == IF r.ok THEN GetPath(r.val, rest) ELSE r
GetPath(v, p) ==
    IF p = <<>> THEN Ok(v) ELSE GetPathRest(Subscript(v, Head(p)), Tail(p))

\* Variant: .get(k, 0).
DictGet_ZeroDefault(v, k) ==
    IF v.t = "obj" THEN Ok(IF k \in DOMAIN v.o THEN v.o[k] ELSE Num(0))
    ELSE Raise("AttributeError", "object has no attribute 'get'")

\* v.get(k): dict.get for a dict, AttributeError for anything else.
DictGet(v, k) ==
    CASE v.t = "obj" -> Ok(IF k \in DOMAIN v.o THEN v.o[k] ELSE Null)
      [] v.t = "null" -> Raise("AttributeError", "'NoneType' object has no attribute 'get'")
      [] v.t = "arr" -> Raise("AttributeError", "'list' object has no attribute 'get'")
      [] v.t = "str" -> Raise("AttributeError", "'str' object has no attribute 'get'")
      [] OTHER -> Raise("AttributeError", "'int' object has no attribute 'get'")

\* k in d, for d a dict.
HasKey(d, k) == k \in DOMAIN d.o

-----------------------------------------------------------------------------
(* transform_weather_data and its helpers *)

\* round(kelvin - 273.15, 2), on hundredths; None and str operands raise.
kelvin_to_celsius(kelvin) ==
    CASE kelvin.t = "num" -> Ok(Num(kelvin.n - 27315))
      [] kelvin.t = "null" ->
            Raise("TypeError", "unsupported operand type(s) for -: 'NoneType' and 'float'")
      [] kelvin.t = "str" ->
            Raise("TypeError", "unsupported operand type(s) for -: 'str' and 'float'")
      [] kelvin.t = "arr" ->
            Raise("TypeError", "unsupported operand type(s) for -: 'list' and 'float'")
      [] OTHER ->
            Raise("TypeError", "unsupported operand type(s) for -: 'dict' and 'float'")

\* The proleptic Gregorian date of a day count from 1970-01-01.
CivilFromDays(days) ==
    LET z == days + 719468
        era == z \div 146097
        doe == z - era * 146097
        yoe == (doe - doe \div 1460 + doe \div 36524 - doe \div 146096) \div 365
        doy == doe - (365 * yoe + yoe \div 4 - yoe \div 100)
        mp == (5 * doy + 2) \div 153
        d == doy - (153 * mp + 2) \div 5 + 1
        m == IF mp < 10 THEN mp + 3 ELSE mp - 9
        y == yoe + era * 400 + (IF m <= 2 THEN 1 ELSE 0)
    IN  <<y, m, d>>

\* datetime.utcfromtimestamp(ts).strftime('%Y-%m-%d %H:%M:%S UTC'): the string
\* is carried as its six numbers <<Y, m, d, H, M, S>>.
FormatUTC(ts) ==
    CASE ts.t = "num" ->
            LET secs == ts.n % 86400
                ymd == CivilFromDays(ts.n \div 86400)
            IN  Ok([t |-> "utcstr",
                    ymdhms |-> ymd \o <<secs \div 3600, (secs % 3600) \div 60, secs % 60>>])
      [] ts.t = "null" ->
            Raise("TypeError", "'NoneType' object cannot be interpreted as an integer")
      [] ts.t = "str" ->
            Raise("TypeError", "'str' object cannot be interpreted as an integer")
      [] ts.t = "arr" ->
            Raise("TypeError", "'list' object cannot be interpreted as an integer")
      [] OTHER ->
            Raise("TypeError", "'dict' object cannot be interpreted as an integer")

\* int(datetime.utcnow().timestamp()): utcnow() is a naive datetime holding the
\* UTC wall clock, and timestamp() reads a naive datetime as local time.
EventTimestamp(clock, tz) == clock - tz

\* One entry of a dict display: key f, value data[p...] passed through conv.
Field(f, p, conv) == [f |-> f, p |-> p, conv |-> conv]

RequiredFields ==
    << Field("city", <<K("name")>>, "copy"),
       Field("country", <<K("sys"), K("country")>>, "copy"),
       Field("weather_condition", <<K("weather"), I(0), K("main")>>, "copy"),
       Field("weather_description", <<K("weather"), I(0), K("description")>>, "copy") >>

MainFields ==
    << Field("temperature_celsius", <<K("main"), K("temp")>>, "kelvin_to_celsius"),
       Field("feels_like_celsius", <<K("main"), K("feels_like")>>, "kelvin_to_celsius"),
       Field("temp_min_celsius", <<K("main"), K("temp_min")>>, "kelvin_to_celsius"),
       Field("temp_max_celsius", <<K("main"), K("temp_max")>>, "kelvin_to_celsius"),
       Field("humidity_percent", <<K("main"), K("humidity")>>, "copy"),
       Field("pressure_hpa", <<K("main"), K("pressure")>>, "copy") >>

SunFields ==
    << Field("sunrise", <<K("sys"), K("sunrise")>>, "utc"),
       Field("sunset", <<K("sys"), K("sunset")>>, "utc") >>

\* The conversion an entry applies to the value it read.
Convert(r, conv) ==
    IF ~r.ok THEN r
    ELSE CASE conv = "kelvin_to_celsius" -> kelvin_to_celsius(r.val)
           [] conv = "utc" -> FormatUTC(r.val)
           [] OTHER -> r

\* The value of one entry.
Evaluate(data, fld) == Convert(GetPath(data, fld.p), fld.conv)

\* A dict display evaluated entry by entry, in order; the first entry that
\* raises ends it.
RECURSIVE Display(_, _, _)
DisplayRest(data, flds, acc, r) ==
    IF ~r.ok THEN r
    ELSE Display(data, Tail(flds), (Head(flds).f :> r.val) @@ acc)
Display(data, flds, acc) ==
    IF flds = <<>> THEN Ok(acc)
    ELSE DisplayRest(data, flds, acc, Evaluate(data, Head(flds)))

\* d.update(e)
Update(d, e) == e @@ d

\* transformed_data.update(e) for a display e that may have raised.
UpdateWith(acc, e) == IF e.ok THEN Ok(Update(acc, e.val)) ELSE e

\* Lines 60-66: the required fields and the time stamp.
RequiredSection(data, clock, tz) ==
    UpdateWith([event_timestamp |-> Num(EventTimestamp(clock, tz))],
               Display(data, RequiredFields, EmptyDict))

\* Lines 69-77: the main section.
MainSection(data, r) ==
    IF ~r.ok THEN r
    ELSE IF HasKey(data, "main")
    THEN UpdateWith(r.val, Display(data, MainFields, EmptyDict))
    ELSE r

\* The wind dict display, lines 81-84.
WindDisplay(speed, deg) ==
    IF ~speed.ok THEN speed
    ELSE IF ~deg.ok THEN deg
    ELSE Ok([wind_speed_ms |-> speed.val, wind_direction_degrees |-> deg.val])

\* Variant: the wind fields written without the 'wind' in data guard.
WindSection_Unguarded(data, r) ==
    IF ~r.ok THEN r
    ELSE IF HasKey(data, "wind")
    THEN UpdateWith(r.val, WindDisplay(DictGet(data.o["wind"], "speed"),
                                       DictGet(data.o["wind"], "deg")))
    ELSE UpdateWith(r.val, WindDisplay(Ok(Null), Ok(Null)))

\* Lines 80-84: the wind section.
WindSection(data, r) ==
    IF ~r.ok THEN r
    ELSE IF HasKey(data, "wind")
    THEN UpdateWith(r.val, WindDisplay(DictGet(data.o["wind"], "speed"),
                                       DictGet(data.o["wind"], "deg")))
    ELSE r

\* Lines 87-91: sunrise and sunset.
SunSection(data, r) ==
    IF ~r.ok THEN r
    ELSE IF HasKey(data, "sys") /\ HasKey(data.o["sys"], "sunrise")
                                /\ HasKey(data.o["sys"], "sunset")
    THEN UpdateWith(r.val, Display(data, SunFields, EmptyDict))
    ELSE r

\* return transformed_data, line 93.
Returned(r) == IF r.ok THEN Ok(Obj(r.val)) ELSE r

\* transform_weather_data(data), with the clock reading it takes.
transform_weather_data(data, clock, tz) ==
    Returned(SunSection(data, WindSection(data, MainSection(data,
        RequiredSection(data, clock, tz)))))

-----------------------------------------------------------------------------
(* Inputs *)

\* Longest weather array drawn.
MaxWeatherLen == 2

\* Clock readings and local-time offsets drawn.
Clocks == {1700000100, 1700003700}
TzOffsets == {0, 3600}

SeqsUpTo(S, n) == UNION {[1..k -> S] : k \in 0..n}

WeatherEntries ==
    { Obj([main |-> Str("Clouds"), description |-> Str("scattered clouds")]),
      Obj([main |-> Str("Clear"), description |-> Null]),
      Obj([main |-> Str("Rain")]) }

FullMain ==
    [temp |-> Num(30015), feels_like |-> Num(27315), temp_min |-> Num(26315),
     temp_max |-> Num(30115), humidity |-> Num(81), pressure |-> Num(1012)]

NameOpts == {EmptyDict, "name" :> Null, "name" :> Str("Paris")}

SysDicts ==
    { c @@ sr @@ ss :
        c \in {EmptyDict, "country" :> Str("FR")},
        sr \in {EmptyDict, "sunrise" :> Num(1700000000)},
        ss \in {EmptyDict, "sunset" :> Num(1700040000), "sunset" :> Null} }

SysOpts == {EmptyDict} \cup {"sys" :> Obj(d) : d \in SysDicts}

WeatherOpts ==
    {EmptyDict} \cup {"weather" :> Arr(q) : q \in SeqsUpTo(WeatherEntries, MaxWeatherLen)}

MainOpts ==
    { EmptyDict,
      "main" :> Obj(FullMain),
      "main" :> Obj([FullMain EXCEPT !.humidity = Null]),
      "main" :> Obj([FullMain EXCEPT !.temp_min = Null]),
      "main" :> Obj([k \in DOMAIN FullMain \ {"pressure"} |-> FullMain[k]]) }

WindOpts ==
    { EmptyDict,
      "wind" :> Null,
      "wind" :> Obj(EmptyDict),
      "wind" :> Obj([speed |-> Num(4)]),
      "wind" :> Obj([deg |-> Num(250)]),
      "wind" :> Obj([speed |-> Num(4), deg |-> Num(250)]),
      "wind" :> Obj([speed |-> Null, deg |-> Num(250)]) }

\* The provider's JSON objects, section by section.
RawObservations ==
    { Obj(n @@ s @@ w @@ m @@ wi) :
        n \in NameOpts, s \in SysOpts, w \in WeatherOpts, m \in MainOpts, wi \in WindOpts }

-----------------------------------------------------------------------------
(* transform_weather_data on its own *)

Exc(where, r) == [where |-> where, type |-> r.type, msg |-> r.msg]

InitT ==
    /\ secret_name_env = Null
    /\ api_key_env = Null
    /\ default_city_env = Null
    /\ stream_env = Null
    /\ tz_offset \in TzOffsets
    /\ event = Null
    /\ pc = "t_start"
    /\ api_key = Unset
    /\ city = Unset
    /\ city_source = "none"
    /\ response = Unset
    /\ put_response = Unset
    /\ weather_data \in RawObservations
    /\ transformed_data = Unset
    /\ json_data = Unset
    /\ result = Unset
    /\ calls = <<>>
    /\ sink_records = <<>>
    /\ raised = <<>>
    /\ secret_lookup = Unset
    /\ now = Unset

\* What a call of transform_weather_data leaves: the record, or the exception.
TransformOutcome(r) ==
    /\ transformed_data' = IF r.ok THEN r.val ELSE Unset
    /\ raised' = IF r.ok THEN raised ELSE Append(raised, Exc("transform_weather_data", r))

\* One call of transform_weather_data(weather_data).
Transform ==
    /\ pc = "t_start"
    /\ \E clock \in Clocks :
         /\ now' = Num(clock)
         /\ TransformOutcome(transform_weather_data(weather_data, clock, tz_offset))
    /\ pc' = "t_done"
    /\ UNCHANGED <<secret_name_env, api_key_env, default_city_env, stream_env,
                   tz_offset, event, api_key, city, city_source, response,
                   put_response, weather_data, json_data, result, calls,
                   sink_records, secret_lookup>>

NextT == Transform

SpecT == InitT /\ [][NextT]_vars

-----------------------------------------------------------------------------
(* Strings, bytes and JSON text *)

\* An f-string: its literal pieces and formatted values, in order.
FStr(parts) == [t |-> "fstr", parts |-> parts]

\* s + tail for a str s produced by json.dumps.
JsonStr(doc, tail) == [t |-> "jsonstr", doc |-> doc, tail |-> tail]

\* json.dumps(v): every value met here is JSON-serializable.
json_dumps(v) == JsonStr(v, "")

\* Variant: the line without its newline.
AddNewline_Missing(s) == s

\* s + '\n'
AddNewline(s) == JsonStr(s.doc, "\n")

\* s.encode('utf-8')
Encode(s) == [t |-> "bytes", utf8 |-> TRUE, text |-> s]

\* A response body: its text when it is UTF-8, b'\xff' otherwise.
Bytes(chars) == [t |-> "bytes", utf8 |-> TRUE, chars |-> chars]
InvalidBytes == [t |-> "bytes", utf8 |-> FALSE]

\* b.decode('utf-8')
Decode(b) ==
    IF b.utf8 THEN Ok(Str(b.chars))
    ELSE Raise("UnicodeDecodeError",
               "'utf-8' codec can't decode byte 0xff in position 0: invalid start byte")

Clouds == Obj([main |-> Str("Clouds"), description |-> Str("scattered clouds")])
FullSys == Obj([country |-> Str("GB"), sunrise |-> Num(1700000000), sunset |-> Num(1700040000)])
FullWind == Obj([speed |-> Num(4), deg |-> Num(250)])

\* The JSON texts a provider response carries here, each with the value it denotes.
ObservationDocs ==
    { <<"{\"name\": \"London\", \"sys\": {\"country\": \"GB\", \"sunrise\": 1700000000, \"sunset\": 1700040000}, \"weather\": [{\"main\": \"Clouds\", \"description\": \"scattered clouds\"}], \"main\": {\"temp\": 300.15, \"feels_like\": 273.15, \"temp_min\": 263.15, \"temp_max\": 301.15, \"humidity\": 81, \"pressure\": 1012}, \"wind\": {\"speed\": 4, \"deg\": 250}}",
        Obj([name |-> Str("London"), sys |-> FullSys, weather |-> Arr(<<Clouds>>),
             main |-> Obj(FullMain), wind |-> FullWind])>>,
      <<"{\"name\": \"London\", \"sys\": {\"country\": \"GB\"}, \"weather\": [{\"main\": \"Clouds\", \"description\": \"scattered clouds\"}]}",
        Obj([name |-> Str("London"), sys |-> Obj([country |-> Str("GB")]),
             weather |-> Arr(<<Clouds>>)])>>,
      <<"{\"name\": \"London\", \"sys\": {\"country\": \"GB\", \"sunrise\": 1700000000, \"sunset\": 1700040000}, \"weather\": [{\"main\": \"Clouds\", \"description\": \"scattered clouds\"}], \"main\": {\"temp\": 300.15, \"feels_like\": 273.15, \"temp_min\": 263.15, \"temp_max\": 301.15, \"humidity\": 81, \"pressure\": 1012}, \"wind\": {}}",
        Obj([name |-> Str("London"), sys |-> FullSys, weather |-> Arr(<<Clouds>>),
             main |-> Obj(FullMain), wind |-> Obj(EmptyDict)])>>,
      <<"{\"name\": \"London\", \"sys\": {\"country\": \"GB\", \"sunrise\": 1700000000, \"sunset\": 1700040000}, \"weather\": [{\"main\": \"Clouds\", \"description\": \"scattered clouds\"}], \"main\": {\"temp\": 300.15, \"feels_like\": 273.15, \"temp_min\": 263.15, \"temp_max\": 301.15, \"humidity\": 81, \"pressure\": 1012}}",
        Obj([name |-> Str("London"), sys |-> FullSys, weather |-> Arr(<<Clouds>>),
             main |-> Obj(FullMain)])>>,
      <<"{\"sys\": {\"country\": \"GB\"}, \"weather\": [{\"main\": \"Clouds\", \"description\": \"scattered clouds\"}]}",
        Obj([sys |-> Obj([country |-> Str("GB")]), weather |-> Arr(<<Clouds>>)])>>,
      <<"{\"name\": \"London\", \"sys\": {\"country\": \"GB\"}, \"weather\": []}",
        Obj([name |-> Str("London"), sys |-> Obj([country |-> Str("GB")]),
             weather |-> Arr(<<>>)])>>,
      <<"{\"name\": \"London\", \"sys\": {\"sunrise\": 1700000000, \"sunset\": 1700040000}, \"weather\": [{\"main\": \"Clouds\", \"description\": \"scattered clouds\"}]}",
        Obj([name |-> Str("London"),
             sys |-> Obj([sunrise |-> Num(1700000000), sunset |-> Num(1700040000)]),
             weather |-> Arr(<<Clouds>>)])>>,
      <<"{\"name\": \"London\", \"sys\": {\"country\": \"GB\"}, \"weather\": [{\"main\": \"Clouds\", \"description\": \"scattered clouds\"}], \"main\": {\"feels_like\": 273.15}}",
        Obj([name |-> Str("London"), sys |-> Obj([country |-> Str("GB")]),
             weather |-> Arr(<<Clouds>>), main |-> Obj([feels_like |-> Num(27315)])])>>,
      <<"{\"cod\": \"404\", \"message\": \"city not found\"}",
        Obj([cod |-> Str("404"), message |-> Str("city not found")])>>,
      <<"[]", Arr(<<>>)>> }

\* The JSON texts a secret carries here.
SecretDocs ==
    { <<"{\"OpenWeatherMapApiKey\": \"sk-json\"}", Obj([OpenWeatherMapApiKey |-> Str("sk-json")])>>,
      <<"{\"OpenWeatherMapApiKey\": \"\"}", Obj([OpenWeatherMapApiKey |-> Str("")])>>,
      <<"{\"api_key\": \"sk-other\"}", Obj([api_key |-> Str("sk-other")])>>,
      <<"[\"sk-list\"]", Arr(<<Str("sk-list")>>)>>,
      <<"12345", Num(12345)>> }

JsonDocs == ObservationDocs \cup SecretDocs

\* json.loads(s) for a str s: the texts outside JsonDocs that the model uses
\* ('', 'sk-raw', 'Service Unavailable') fail at their first character.
json_loads(s) ==
    IF \E d \in JsonDocs : d[1] = s.s
    THEN Ok((CHOOSE d \in JsonDocs : d[1] = s.s)[2])
    ELSE Raise("JSONDecodeError", "Expecting value: line 1 column 1 (char 0)")

-----------------------------------------------------------------------------
(* Module constants, lines 19-25 *)

SECRET_NAME == secret_name_env
DEFAULT_CITY == IF default_city_env = Null THEN Str("London") ELSE default_city_env
DELIVERY_STREAM_NAME == IF stream_env = Null THEN Str("weather-data-stream") ELSE stream_env
WEATHER_API_URL == "https://api.openweathermap.org/data/2.5/weather"
RANDOM_CITIES ==
    { Str("London"), Str("New York"), Str("Paris"), Str("Berlin"), Str("Tokyo"),
      Str("Sydney"), Str("Cairo"), Str("Toronto"), Str("Istanbul") }

-----------------------------------------------------------------------------
(* Exceptions *)

\* The classes "except Exception" catches: every exception type met here
\* derives from Exception.
ExceptionClasses ==
    { "KeyError", "IndexError", "TypeError", "AttributeError", "ValueError",
      "JSONDecodeError", "UnicodeDecodeError", "ClientError", "MaxRetryError" }

\* Variant: except ValueError.
Catches_ValueErrorOnly(type) == type = "ValueError"

\* except Exception, lines 45 and 143.
Catches(type) == type \in ExceptionClasses

-----------------------------------------------------------------------------
(* get_api_key *)

\* What secretsmanager_client.get_secret_value can do.
SecretStrings ==
    { "sk-raw", "", "{\"OpenWeatherMapApiKey\": \"sk-json\"}",
      "{\"OpenWeatherMapApiKey\": \"\"}", "{\"api_key\": \"sk-other\"}",
      "[\"sk-list\"]", "12345" }

SecretOutcomes ==
    { Raise("ClientError", "An error occurred (ResourceNotFoundException) when calling the GetSecretValue operation: Secrets Manager can't find the specified secret.") }
    \cup { Ok(Obj([Name |-> Str("weather/api-key"), SecretBinary |-> Str("c2stYmlu")])) }
    \cup { Ok(Obj([Name |-> Str("weather/api-key"), SecretString |-> Str(x)])) :
             x \in SecretStrings }

\* Variant: the lookup without the guard of line 30.
SecretConfigured_Always(name) == TRUE

\* not SECRET_NAME, line 30, negated.
SecretConfigured(name) == Truthy(name)

\* What get_api_key leaves behind: the value returned, the exceptions raised
\* inside it, the calls it issued, and whether an exception left it.
KeyResult(ret, excs, issued, escaped) ==
    [ret |-> ret, excs |-> excs, calls |-> issued, escaped |-> escaped]

\* Lines 45-48: the outer handler, falling back to the environment variable.
KeyFallback(env, r, issued) ==
    IF Catches(r.type)
    THEN KeyResult(env, <<Exc("get_api_key", r)>>, issued, FALSE)
    ELSE KeyResult(Unset, <<Exc("get_api_key", r)>>, issued, TRUE)

\* Line 41, and the outer handler when .get itself raises.
KeyFromDict(got, env, issued) ==
    IF got.ok THEN KeyResult(got.val, <<>>, issued, FALSE)
    ELSE KeyFallback(env, got, issued)

\* Lines 39-43: the secret as a JSON object holding the key, or the key itself.
KeyFromParsed(secret, secret_dict, env, issued) ==
    IF secret_dict.ok
    THEN KeyFromDict(DictGet(secret_dict.val, "OpenWeatherMapApiKey"), env, issued)
    ELSE IF secret_dict.type = "JSONDecodeError"
    THEN KeyResult(secret, <<Exc("get_api_key", secret_dict)>>, issued, FALSE)
    ELSE KeyFallback(env, secret_dict, issued)

\* Lines 36-43: secret = response['SecretString'], then its parse.
KeyFromSecret(secret, env, issued) ==
    IF ~secret.ok THEN KeyFallback(env, secret, issued)
    ELSE KeyFromParsed(secret.val, json_loads(secret.val), env, issued)

\* response['SecretString'] of what get_secret_value returned, or its exception.
SecretString(lookup) ==
    IF lookup.ok THEN Subscript(lookup.val, K("SecretString")) ELSE lookup

\* get_api_key(), given what get_secret_value does when it is called.
get_api_key(name, env, lookup) ==
    IF ~SecretConfigured(name)
    THEN KeyResult(env, <<>>, <<>>, FALSE)
    ELSE KeyFromSecret(SecretString(lookup), env,
                       <<[op |-> "get_secret_value", SecretId |-> name]>>)

-----------------------------------------------------------------------------
(* lambda_handler *)

\* Variant: the error returned with status 200.
ErrorResult_Status200(e) ==
    [statusCode |-> 200,
     body |-> json_dumps(Obj([error |-> FStr(<<"Error processing weather data: ", e.msg>>)]))]

\* Lines 143-149: the body of the handler's except clause.
ErrorResult(e) ==
    [statusCode |-> 500,
     body |-> json_dumps(Obj([error |-> FStr(<<"Error processing weather data: ", e.msg>>)]))]

\* Lines 111-117: the return for a response that is not a 200.
ApiErrorResult(status, text) ==
    [statusCode |-> status,
     body |-> json_dumps(Obj([error |->
                FStr(<<"Weather API error: Status ", Num(status), ", Response: ", text>>)]))]

\* Lines 134-141: the return after the record was put.
SuccessResult(c, put) ==
    [statusCode |-> 200,
     body |-> json_dumps(Obj([message |-> Str("Weather data successfully sent to Firehose"),
                              city |-> c,
                              recordId |-> DictGet(put, "RecordId").val]))]

\* An exception reaching the handler's try block.
Fail(e) ==
    /\ raised' = Append(raised, e)
    /\ IF Catches(e.type)
       THEN result' = ErrorResult(e) /\ pc' = "done"
       ELSE result' = result /\ pc' = "propagated"

\* api_key = get_api_key(), and what the call left behind.
KeyOutcome(r) ==
    /\ api_key' = r.ret
    /\ calls' = calls \o r.calls
    /\ raised' = raised \o r.excs
    /\ pc' = IF r.escaped THEN "propagated" ELSE "city"

\* Line 98.
GetApiKey ==
    /\ pc = "start"
    /\ \E lookup \in (IF SecretConfigured(SECRET_NAME) THEN SecretOutcomes ELSE {Unset}) :
         /\ secret_lookup' = lookup
         /\ KeyOutcome(get_api_key(SECRET_NAME, api_key_env, lookup))
    /\ UNCHANGED <<secret_name_env, api_key_env, default_city_env, stream_env,
                   tz_offset, event, city, city_source, response, put_response,
                   weather_data, transformed_data, json_data, result,
                   sink_records, now>>

\* a or b or random.choice(...): the first truthy operand, the last one otherwise.
OrChain(ev_city, default, pick) ==
    IF Truthy(ev_city) THEN [val |-> ev_city, src |-> "event"]
    ELSE IF Truthy(default) THEN [val |-> default, src |-> "default"]
    ELSE [val |-> pick, src |-> "random"]

\* Variant: only None counts as a missing key.
KeyMissing_NoneOnly(k) == k = Null

\* not api_key, line 104.
KeyMissing(k) == ~Truthy(k)

\* Lines 104-108: without a key the handler raises, with one it goes on.
CheckKey ==
    IF KeyMissing(api_key)
    THEN Fail([where |-> "lambda_handler", type |-> "ValueError",
               msg |-> "No API key available. Set WEATHER_API_KEY environment variable or configure secret."])
    ELSE pc' = "fetch" /\ UNCHANGED <<result, raised>>

\* Line 101, for event.get('city') evaluated to got.
CityFrom(got) ==
    IF ~got.ok
    THEN Fail(Exc("lambda_handler", got)) /\ UNCHANGED <<city, city_source>>
    ELSE \E pick \in RANDOM_CITIES :
           /\ city' = OrChain(got.val, DEFAULT_CITY, pick).val
           /\ city_source' = OrChain(got.val, DEFAULT_CITY, pick).src
           /\ CheckKey

\* Lines 101-105: the city, then the check of the key.
ResolveCity ==
    /\ pc = "city"
    /\ CityFrom(DictGet(event, "city"))
    /\ UNCHANGED <<secret_name_env, api_key_env, default_city_env, stream_env,
                   tz_offset, event, api_key, response, put_response,
                   weather_data, transformed_data, json_data, calls,
                   sink_records, secret_lookup, now>>

\* What http.request('GET', url) can do: raise, or answer.
Statuses == {200, 204, 404}

Bodies ==
    {Bytes(d[1]) : d \in ObservationDocs}
    \cup {Bytes("Service Unavailable"), Bytes(""), InvalidBytes}

HttpOutcomes ==
    { Raise("MaxRetryError", "HTTPSConnectionPool(host='api.openweathermap.org', port=443): Max retries exceeded") }
    \cup { Ok([status |-> st, data |-> b]) : st \in Statuses, b \in Bodies }

\* response = http.request('GET', url), for what the request did.
FetchOutcome(out) ==
    IF out.ok
    THEN /\ response' = out.val
         /\ pc' = "response"
         /\ UNCHANGED <<result, raised>>
    ELSE /\ Fail(Exc("lambda_handler", out))
         /\ UNCHANGED response

\* Lines 108-109.
Fetch ==
    /\ pc = "fetch"
    /\ calls' = Append(calls, [op |-> "http_get", url |-> WEATHER_API_URL,
                               q |-> city, appid |-> api_key])
    /\ \E out \in HttpOutcomes : FetchOutcome(out)
    /\ UNCHANGED <<secret_name_env, api_key_env, default_city_env, stream_env,
                   tz_offset, event, api_key, city, city_source, put_response,
                   weather_data, transformed_data, json_data, sink_records,
                   secret_lookup, now>>

\* Variant: only 4xx and 5xx count as errors.
IsErrorStatus_From400(status) == status >= 400

\* response.status != 200, line 111.
IsErrorStatus(status) == status # 200

\* Lines 111-117, for response.data.decode('utf-8') evaluated to text.
ApiErrorFrom(text) ==
    IF text.ok
    THEN /\ result' = ApiErrorResult(response.status, text.val)
         /\ pc' = "done"
         /\ UNCHANGED raised
    ELSE Fail(Exc("lambda_handler", text))

\* Lines 111-117: the provider's error is returned as it came.
ReturnApiError ==
    /\ ApiErrorFrom(Decode(response.data))
    /\ UNCHANGED <<weather_data, transformed_data, json_data, now>>

\* json.loads(text) of a decode that may have raised.
Parse(text) == IF text.ok THEN json_loads(text.val) ELSE text

\* transform_weather_data(weather_data) of a parse that may have raised.
TransformParsed(parsed, clock, tz) ==
    IF parsed.ok THEN transform_weather_data(parsed.val, clock, tz) ELSE parsed

\* Lines 120-124, for the parse and the transform evaluated.
ProcessFrom(parsed, record, clock) ==
    /\ weather_data' = IF parsed.ok THEN parsed.val ELSE weather_data
    /\ now' = IF parsed.ok THEN Num(clock) ELSE now
    /\ transformed_data' = IF record.ok THEN record.val ELSE transformed_data
    /\ json_data' = IF record.ok THEN AddNewline(json_dumps(record.val)) ELSE json_data
    /\ IF record.ok
       THEN pc' = "publish" /\ UNCHANGED <<result, raised>>
       ELSE Fail(Exc("lambda_handler", record))

\* The parse of the body, then the rest.
ProcessParsed(parsed, clock) ==
    ProcessFrom(parsed, TransformParsed(parsed, clock, tz_offset), clock)

\* Lines 120-124: decode, parse, transform, serialize.
ProcessData ==
    \E clock \in Clocks : ProcessParsed(Parse(Decode(response.data)), clock)

\* Lines 111-124.
HandleResponse ==
    /\ pc = "response"
    /\ IF IsErrorStatus(response.status) THEN ReturnApiError ELSE ProcessData
    /\ UNCHANGED <<secret_name_env, api_key_env, default_city_env, stream_env,
                   tz_offset, event, api_key, city, city_source, response,
                   put_response, calls, sink_records, secret_lookup>>

\* What firehose_client.put_record can do: reject the record, or accept it
\* and name it.
SinkOutcomes ==
    { Raise("ClientError", "An error occurred (ServiceUnavailableException) when calling the PutRecord operation: Slow down.") }
    \cup { Ok(Obj([RecordId |-> Str(id), Encrypted |-> Str("False")])) :
             id \in {"rec-0001", "rec-0002"} }

\* The Record argument of put_record, lines 128-131.
PutRequest(stream, line) ==
    [op |-> "put_record", DeliveryStreamName |-> stream, Data |-> Encode(line)]

\* Lines 128-141, for what put_record did.
PutOutcome(out) ==
    IF out.ok
    THEN /\ put_response' = out.val
         /\ sink_records' = Append(sink_records,
                                   [DeliveryStreamName |-> DELIVERY_STREAM_NAME,
                                    Data |-> Encode(json_data),
                                    RecordId |-> out.val.o["RecordId"]])
         /\ result' = SuccessResult(city, out.val)
         /\ pc' = "done"
         /\ UNCHANGED raised
    ELSE /\ Fail(Exc("lambda_handler", out))
         /\ UNCHANGED <<put_response, sink_records>>

\* Lines 128-141.
PutRecord ==
    /\ pc = "publish"
    /\ calls' = Append(calls, PutRequest(DELIVERY_STREAM_NAME, json_data))
    /\ \E out \in SinkOutcomes : PutOutcome(out)
    /\ UNCHANGED <<secret_name_env, api_key_env, default_city_env, stream_env,
                   tz_offset, event, api_key, city, city_source, response,
                   weather_data, transformed_data, json_data, secret_lookup, now>>

\* The trigger inputs drawn.
Events ==
    { Null, Obj(EmptyDict), Obj([city |-> Str("")]), Obj([city |-> Str("Paris")]) }

\* One cold start and one invocation: the environment, then the event.
Init ==
    /\ secret_name_env \in {Null, Str("weather/api-key")}
    /\ api_key_env \in {Null, Str(""), Str("env-key")}
    /\ default_city_env \in {Null, Str(""), Str("Oslo")}
    /\ stream_env \in {Null, Str("my-stream")}
    /\ tz_offset = 0
    /\ event \in Events
    /\ pc = "start"
    /\ api_key = Unset
    /\ city = Unset
    /\ city_source = "none"
    /\ response = Unset
    /\ put_response = Unset
    /\ weather_data = Unset
    /\ transformed_data = Unset
    /\ json_data = Unset
    /\ result = Unset
    /\ calls = <<>>
    /\ sink_records = <<>>
    /\ raised = <<>>
    /\ secret_lookup = Unset
    /\ now = Unset

Next == GetApiKey \/ ResolveCity \/ Fetch \/ HandleResponse \/ PutRecord

Spec == Init /\ [][Next]_vars

-----------------------------------------------------------------------------
(* Vocabulary of the properties *)

RequiredNames ==
    {"city", "country", "weather_condition", "weather_description", "event_timestamp"}
MainNames ==
    {"temperature_celsius", "feels_like_celsius", "temp_min_celsius",
     "temp_max_celsius", "humidity_percent", "pressure_hpa"}
WindNames == {"wind_speed_ms", "wind_direction_degrees"}
SunNames == {"sunrise", "sunset"}

Issued(op) == \E i \in DOMAIN calls : calls[i].op = op
CountOp(op) == Cardinality({i \in DOMAIN calls : calls[i].op = op})
Ops == [i \in DOMAIN calls |-> calls[i].op]

\* body is json.dumps({'error': <f-string of parts>}).
IsErrorBody(body, parts) ==
    /\ body.t = "jsonstr"
    /\ body.tail = ""
    /\ body.doc.t = "obj"
    /\ DOMAIN body.doc.o = {"error"}
    /\ body.doc.o["error"].t = "fstr"
    /\ body.doc.o["error"].parts = parts

HasErrorBody(body) ==
    /\ body.t = "jsonstr"
    /\ body.doc.t = "obj"
    /\ DOMAIN body.doc.o = {"error"}

\* get_api_key returned None or ''.
NoKey == api_key \in {Null, Str("")}

\* transform_weather_data returned a record.
RecordReturned == pc = "t_done" /\ transformed_data # Unset
Raw == weather_data.o
Rec == transformed_data.o
RawHas(section) == section \in DOMAIN Raw
RawSysHasSun ==
    /\ RawHas("sys")
    /\ "sunrise" \in DOMAIN Raw["sys"].o
    /\ "sunset" \in DOMAIN Raw["sys"].o

-----------------------------------------------------------------------------
(* C1: when get_api_key yields no key the handler returns 500 with an error *)
(* body, and neither the HTTP GET nor put_record is issued.                 *)
C1_NoKeyFailsBeforeFetch ==
    (pc \notin {"start", "t_start", "t_done"} /\ NoKey) =>
        /\ ~Issued("http_get")
        /\ ~Issued("put_record")
        /\ pc \in {"city", "done"}
        /\ pc = "done" => /\ result.statusCode = 500
                          /\ HasErrorBody(result.body)

C1_Witness ==
    /\ pc = "done"
    /\ secret_name_env = Null
    /\ api_key_env = Null
    /\ api_key = Null
    /\ city = Str("Paris")
    /\ result.statusCode = 500
    /\ raised = <<[where |-> "lambda_handler", type |-> "ValueError",
                   msg |-> "No API key available. Set WEATHER_API_KEY environment variable or configure secret."]>>
    /\ calls = <<>>

(* C2 as claimed: for every response whose status is not 200 the handler    *)
(* returns that status with an error body embedding status and body text,  *)
(* without parsing, transforming or calling the sink.                       *)
C2_AsClaimed ==
    (pc = "done" /\ response # Unset /\ response.status # 200) =>
        /\ result.statusCode = response.status
        /\ HasErrorBody(result.body)
        /\ weather_data = Unset
        /\ transformed_data = Unset
        /\ ~Issued("put_record")

(* C2, amended: for a response whose status is not 200 the handler returns  *)
(* that status and an error body embedding the status and the body text    *)
(* when the body decodes as UTF-8, and 500 with the decode error when it    *)
(* does not; in both cases nothing is parsed or transformed and the sink    *)
(* is not called.                                                           *)
C2_MirrorsStatusWhenDecodable ==
    (response # Unset /\ response.status # 200) =>
        /\ pc \in {"response", "done"}
        /\ weather_data = Unset
        /\ transformed_data = Unset
        /\ json_data = Unset
        /\ ~Issued("put_record")
        /\ sink_records = <<>>
        /\ pc = "done" =>
             IF response.data.utf8
             THEN /\ result.statusCode = response.status
                  /\ IsErrorBody(result.body,
                                 <<"Weather API error: Status ", Num(response.status),
                                   ", Response: ", Str(response.data.chars)>>)
             ELSE /\ result.statusCode = 500
                  /\ IsErrorBody(result.body,
                                 <<"Error processing weather data: ",
                                   "'utf-8' codec can't decode byte 0xff in position 0: invalid start byte">>)

C2_Witness ==
    /\ pc = "done"
    /\ response # Unset
    /\ response.status = 404
    /\ response.data = Bytes("{\"cod\": \"404\", \"message\": \"city not found\"}")
    /\ result.statusCode = 404

(* C3: lambda_handler never propagates an exception: an exception raised in *)
(* a step of the handler (the missing-key ValueError of key resolution,     *)
(* city resolution, HTTP fetch, decoding, JSON parse, transform, sink       *)
(* publish) is the last thing the invocation does and ends it with 500 and  *)
(* an error body holding the exception's message.  get_api_key itself never *)
(* raises to the handler: what is raised inside it is absorbed there, the   *)
(* raw secret being returned after a JSONDecodeError and the environment    *)
(* value after anything else.                                               *)
C3_HandlerExceptionsBecome500 ==
    /\ pc # "propagated"
    /\ pc = "done" => result # Unset
    /\ \A i \in DOMAIN raised :
         IF raised[i].where = "lambda_handler"
         THEN /\ i = Len(raised)
              /\ pc = "done"
              /\ result.statusCode = 500
              /\ IsErrorBody(result.body,
                             <<"Error processing weather data: ", raised[i].msg>>)
         ELSE /\ raised[i].where = "get_api_key"
              /\ i = 1
              /\ IF raised[i].type = "JSONDecodeError"
                 THEN api_key = secret_lookup.val.o["SecretString"]
                 ELSE api_key = api_key_env

C3_Witness ==
    /\ pc = "done"
    /\ Len(raised) = 2
    /\ raised[1].where = "get_api_key"
    /\ raised[1].type = "ClientError"
    /\ raised[2] = [where |-> "lambda_handler", type |-> "KeyError", msg |-> "'name'"]
    /\ result.statusCode = 500

(* C4 as claimed: the event's city when it has one, otherwise the           *)
(* configured DEFAULT_CITY, otherwise (no event city, DEFAULT_CITY unset) a *)
(* random choice among RANDOM_CITIES; "has a city" and "configured" are     *)
(* read as non-empty.                                                       *)
C4_AsClaimed ==
    (pc \in {"fetch", "response", "publish", "done"} /\ city # Unset) =>
        LET ev_city == IF "city" \in DOMAIN event.o THEN event.o["city"] ELSE Null
            has_city == ev_city \notin {Null, Str("")}
        IN  /\ has_city => city = ev_city /\ city_source = "event"
            /\ (~has_city /\ default_city_env \notin {Null, Str("")}) =>
                  city = default_city_env /\ city_source = "default"
            /\ (~has_city /\ default_city_env = Null) =>
                  city \in RANDOM_CITIES /\ city_source = "random"

(* C5: a returned record has the five required fields, the six main fields  *)
(* iff the raw observation has a main section, the two wind fields iff it   *)
(* has a wind section, and sunrise and sunset iff raw.sys has both.         *)
C5_OptionalGroupsFollowSections ==
    RecordReturned =>
        /\ RequiredNames \subseteq DOMAIN Rec
        /\ IF RawHas("main") THEN MainNames \subseteq DOMAIN Rec
                             ELSE MainNames \cap DOMAIN Rec = {}
        /\ IF RawHas("wind") THEN WindNames \subseteq DOMAIN Rec
                             ELSE WindNames \cap DOMAIN Rec = {}
        /\ IF RawSysHasSun THEN SunNames \subseteq DOMAIN Rec
                           ELSE SunNames \cap DOMAIN Rec = {}
        /\ DOMAIN Rec \subseteq RequiredNames \cup MainNames \cup WindNames \cup SunNames

C5_Witness ==
    /\ RecordReturned
    /\ RawHas("main")
    /\ ~RawHas("wind")
    /\ "sunrise" \in DOMAIN Raw["sys"].o
    /\ "sunset" \notin DOMAIN Raw["sys"].o
    /\ DOMAIN Rec = RequiredNames \cup MainNames

\* The raw observation has all three optional sections.
AllSections == RecordReturned /\ RawHas("main") /\ RawHas("wind") /\ RawSysHasSun

\* No value of the raw observation is null.
RECURSIVE NullFree(_)
NullFree(v) ==
    CASE v.t = "null" -> FALSE
      [] v.t = "obj" -> \A k \in DOMAIN v.o : NullFree(v.o[k])
      [] v.t = "arr" -> \A i \in DOMAIN v.a : NullFree(v.a[i])
      [] OTHER -> TRUE

(* C6 as claimed, on raw observations that hold no null themselves: with a  *)
(* non-empty weather array, main, wind (any subset of speed and deg) and    *)
(* sys.sunrise/sunset the record has exactly the fifteen fields and none of *)
(* them is null.                                                            *)
C6_AsClaimed ==
    (AllSections /\ NullFree(weather_data)) =>
        /\ DOMAIN Rec = RequiredNames \cup MainNames \cup WindNames \cup SunNames
        /\ \A k \in DOMAIN Rec : Rec[k] # Null

\* The raw value a copied field of the record is read from, Null when missing.
CopiedFrom(k) ==
    CASE k = "city" -> Raw["name"]
      [] k = "country" -> Raw["sys"].o["country"]
      [] k = "weather_condition" -> Raw["weather"].a[1].o["main"]
      [] k = "weather_description" -> Raw["weather"].a[1].o["description"]
      [] k = "humidity_percent" -> Raw["main"].o["humidity"]
      [] k = "pressure_hpa" -> Raw["main"].o["pressure"]
      [] k = "wind_speed_ms" ->
            IF "speed" \in DOMAIN Raw["wind"].o THEN Raw["wind"].o["speed"] ELSE Null
      [] k = "wind_direction_degrees" ->
            IF "deg" \in DOMAIN Raw["wind"].o THEN Raw["wind"].o["deg"] ELSE Null
      [] OTHER -> Unset

(* C6, amended: with a non-empty weather array, main, wind and              *)
(* sys.sunrise/sunset the record has exactly the required fields and all    *)
(* fields of the three optional groups; a field is null exactly when the    *)
(* raw value it copies is null or, for wind_speed_ms and                    *)
(* wind_direction_degrees, when the wind section lacks speed or deg.        *)
C6_NullOnlyWhereRawIsMissing ==
    AllSections =>
        /\ DOMAIN Rec = RequiredNames \cup MainNames \cup WindNames \cup SunNames
        /\ \A k \in DOMAIN Rec : (Rec[k] = Null) <=> (CopiedFrom(k) = Null)
        /\ \A k \in DOMAIN Rec : CopiedFrom(k) # Unset => Rec[k] = CopiedFrom(k)

C6_Witness ==
    /\ AllSections
    /\ NullFree(weather_data)
    /\ DOMAIN Raw["wind"].o = {"speed"}
    /\ Rec["wind_speed_ms"] = Num(4)
    /\ Rec["wind_direction_degrees"] = Null

(* C7 as claimed: get_api_key never raises and returns absent only when the *)
(* environment fallback is absent (unset or empty) too.                     *)
C7_AsClaimed ==
    /\ pc # "propagated"
    /\ (pc \in {"city", "fetch", "response", "publish", "done"} /\ api_key = Null) =>
          api_key_env \in {Null, Str("")}

\* The body is a provider response the transform accepts: a JSON object with
\* name, sys.country, a first weather entry with main and description, a
\* complete numeric main section if any, a wind object if any, numeric
\* sunrise and sunset if both are there.
WellFormedObservation(v) ==
    /\ v.t = "obj"
    /\ {"name", "sys", "weather"} \subseteq DOMAIN v.o
    /\ v.o["sys"].t = "obj"
    /\ "country" \in DOMAIN v.o["sys"].o
    /\ v.o["weather"].t = "arr"
    /\ v.o["weather"].a # <<>>
    /\ v.o["weather"].a[1].t = "obj"
    /\ {"main", "description"} \subseteq DOMAIN v.o["weather"].a[1].o
    /\ "main" \in DOMAIN v.o =>
          /\ v.o["main"].t = "obj"
          /\ {"temp", "feels_like", "temp_min", "temp_max", "humidity", "pressure"}
                \subseteq DOMAIN v.o["main"].o
          /\ \A k \in {"temp", "feels_like", "temp_min", "temp_max"} :
                v.o["main"].o[k].t = "num"
    /\ "wind" \in DOMAIN v.o => v.o["wind"].t = "obj"
    /\ {"sunrise", "sunset"} \subseteq DOMAIN v.o["sys"].o =>
          v.o["sys"].o["sunrise"].t = "num" /\ v.o["sys"].o["sunset"].t = "num"

WellFormedBody(b) ==
    /\ b.utf8
    /\ \E d \in ObservationDocs : d[1] = b.chars /\ WellFormedObservation(d[2])

\* put_record raised.
SinkRejected ==
    /\ Issued("put_record")
    /\ raised # <<>>
    /\ raised[Len(raised)].where = "lambda_handler"
    /\ raised[Len(raised)].type = "ClientError"

(* C8: with a key, a 200 response whose body is well formed and a sink that *)
(* accepts, exactly one record (the serialized record and a newline) goes   *)
(* to the configured stream and the handler returns 200 with the message,   *)
(* the city sent to the provider and the sink's non-empty record id.        *)
C8_SuccessPublishesOnce ==
    (pc = "done" /\ response # Unset /\ response.status = 200
        /\ WellFormedBody(response.data) /\ ~SinkRejected) =>
        /\ CountOp("put_record") = 1
        /\ Len(sink_records) = 1
        /\ sink_records[1].DeliveryStreamName =
              (IF stream_env = Null THEN Str("weather-data-stream") ELSE stream_env)
        /\ sink_records[1].Data =
              [t |-> "bytes", utf8 |-> TRUE,
               text |-> [t |-> "jsonstr", doc |-> transformed_data, tail |-> "\n"]]
        /\ transformed_data.o["city"] = weather_data.o["name"]
        /\ result.statusCode = 200
        /\ result.body.t = "jsonstr"
        /\ DOMAIN result.body.doc.o = {"message", "city", "recordId"}
        /\ result.body.doc.o["message"] = Str("Weather data successfully sent to Firehose")
        /\ result.body.doc.o["city"] = city
        /\ \E i \in DOMAIN calls : calls[i].op = "http_get" /\ calls[i].q = city
        /\ result.body.doc.o["recordId"] = sink_records[1].RecordId
        /\ result.body.doc.o["recordId"] = put_response.o["RecordId"]
        /\ result.body.doc.o["recordId"].t = "str"
        /\ result.body.doc.o["recordId"].s # ""

C8_Witness ==
    /\ pc = "done"
    /\ result.statusCode = 200
    /\ response.status = 200
    /\ WellFormedBody(response.data)
    /\ city = Str("Paris")
    /\ weather_data.o["name"] = Str("London")
    /\ stream_env = Str("my-stream")
    /\ Len(sink_records) = 1
    /\ sink_records[1].RecordId = Str("rec-0002")

(* C9: the external calls occur at most once each, in the order secret      *)
(* lookup (only with a secret name configured), HTTP GET (only with a key), *)
(* put_record (only after a 200 response was parsed and transformed), and   *)
(* nothing is issued after a failure.                                       *)
C9_CallsOnceInOrder ==
    /\ Ops \in { <<>>, <<"get_secret_value">>, <<"get_secret_value", "http_get">>,
                 <<"get_secret_value", "http_get", "put_record">>,
                 <<"http_get">>, <<"http_get", "put_record">> }
    /\ Issued("get_secret_value") <=>
          (pc \notin {"start", "t_start", "t_done"}
             /\ secret_name_env \notin {Null, Str("")})
    /\ Issued("http_get") => api_key \notin {Unset, Null, Str("")}
    /\ Issued("put_record") =>
          /\ response # Unset
          /\ response.status = 200
          /\ weather_data # Unset
          /\ transformed_data # Unset
          /\ json_data # Unset
    /\ (\E i \in DOMAIN raised : raised[i].where = "lambda_handler") => pc = "done"

C9_Witness ==
    /\ pc = "done"
    /\ Ops = <<"get_secret_value", "http_get", "put_record">>
    /\ SinkRejected

(* C10: the handler returns 200 iff exactly one put_record was made and     *)
(* returned normally; with any other status the sink accepted no record.    *)
C10_NoPartialSuccess ==
    pc = "done" =>
        /\ result.statusCode = 200 <=>
              (CountOp("put_record") = 1 /\ put_response # Unset)
        /\ result.statusCode = 200 => Len(sink_records) = 1
        /\ result.statusCode # 200 => sink_records = <<>>

C10_Witness ==
    /\ pc = "done"
    /\ result.statusCode = 500
    /\ SinkRejected
    /\ sink_records = <<>>
    /\ transformed_data # Unset

====
